---- MODULE Spec2Model ----
(***************************************************************************)
(* The salary-map page of the dashboard (pages/page2.py): the loader that  *)
(* builds the cleaned listings table once at import, and the callback      *)
(* update_map_and_cards that filters and aggregates it on every            *)
(* interaction.                                                            *)
(*                                                                         *)
(* Text values on which the code works character by character (locations, *)
(* job titles, search terms) are sequences of one-character strings.  A    *)
(* cell of a table is <<>> when it is NaN/None and <<v>> when it holds v.  *)
(***************************************************************************)
EXTENDS Integers, Sequences, FiniteSets, TLC

\* ------------------------------------------------------------------ bounds

\* Largest number of listing rows in a glassdoor.csv of complete listings.
MaxRows == 3

\* Largest number of listing rows in a glassdoor.csv that also holds
\* incomplete or irregular listings.
MaxMixedRows == 1

\* Largest number of callback invocations followed in one behaviour.
MaxCalls == 2

\* Largest number of clicks on the home page's button followed in one
\* behaviour.
MaxClicks == 2

\* Longest wait, in seconds, that is counted for a request in flight; a
\* request that has no timeout goes on waiting after it.
MaxWait == 12

\* ------------------------------------------------------------------ cells

Null == <<>>

Some(v) == <<v>>

Val(cell) == cell[1]

\* ------------------------------------------------------------- characters

UpperAZ ==
  {"A", "B", "C", "D", "E", "F", "G", "H", "I", "J", "K", "L", "M",
   "N", "O", "P", "Q", "R", "S", "T", "U", "V", "W", "X", "Y", "Z"}

\* What the regular-expression class \s and str.strip() take for whitespace.
IsSpace(c) == c \in {" ", "\t", "\n"}

\* Case folding of one character, as re.IGNORECASE and str.upper() pair them.
Lower(c) ==
  CASE c = "A" -> "a"
    [] c = "B" -> "b"
    [] c = "C" -> "c"
    [] c = "N" -> "n"
    [] c = "T" -> "t"
    [] c = "X" -> "x"
    [] c = "Y" -> "y"
    [] OTHER -> c

\* Code points of the characters the job titles are written in (the order
\* Python compares strings by).
Ord(c) ==
  CASE c = " " -> 32
    [] c = "+" -> 43
    [] c = "." -> 46
    [] c = "A" -> 65
    [] c = "B" -> 66
    [] c = "C" -> 67
    [] c = "N" -> 78
    [] c = "T" -> 84
    [] c = "X" -> 88
    [] c = "Y" -> 89
    [] c = "a" -> 97
    [] c = "b" -> 98
    [] OTHER -> 120

\* ----------------------------------------------------- the two CSV files

MainColumns ==
  {"map.location", "header.jobTitle", "overview.industry", "salary.salaries"}

SalaryColumns ==
  {"id",
   "salary.salaries.val.salaryPercentileMap.payPercentile50",
   "salary.salaries.val.payPeriod"}

\* Locations found in the listings.
LocCA == <<"x", ",", " ", "C", "A">>
LocNY == <<"y", ",", "N", "Y">>
LocTX == <<"a", ",", "b", ",", "\t", "T", "X">>
LocCANewline == <<"x", ",", " ", "C", "A", "\n">>
LocNoComma == <<"x", " ", "C", "A">>
LocLowercase == <<"x", ",", " ", "c", "a">>

\* Job titles found in the listings.
TitleAB == <<"a", "b">>
TitleB == <<"B">>
TitleAPlus == <<"a", "+">>
TitleBSpaceA == <<"b", " ", "A">>

Listing(loc, title, ind, ref) ==
  [map_location |-> loc, header_jobTitle |-> title,
   overview_industry |-> ind, salary_salaries |-> ref]

\* Complete US listings.  Salary reference 5 matches two salary records.
CleanPool ==
  { Listing(Some(LocTX), Some(TitleAB), Some("Tech"), Some(1)),
    Listing(Some(LocCA), Some(TitleB), Some("Tech"), Some(2)),
    Listing(Some(LocCA), Some(TitleBSpaceA), Some("Finance"), Some(5)),
    Listing(Some(LocNY), Some(TitleAPlus), Some("Finance"), Some(3)),
    Listing(Some(LocNY), Some(TitleB), Some("Finance"), Some(6)) }

\* Listings that each lack one thing the loader needs, or have a location
\* of an unusual form.  Salary reference 9 matches no salary record, and
\* reference 4 a record without a salary figure.
IrregularPool ==
  { Listing(Some(LocCANewline), Some(TitleB), Some("Tech"), Some(3)),
    Listing(Some(LocNoComma), Some(TitleAB), Some("Tech"), Some(3)),
    Listing(Some(LocLowercase), Some(TitleAB), Some("Tech"), Some(3)),
    Listing(Some(LocNY), Some(TitleAB), Some("-1"), Some(3)),
    Listing(Null, Some(TitleAB), Some("Tech"), Some(3)),
    Listing(Some(LocCA), Null, Some("Tech"), Some(3)),
    Listing(Some(LocCA), Some(TitleAB), Null, Some(3)),
    Listing(Some(LocCA), Some(TitleAB), Some("Tech"), Null),
    Listing(Some(LocCA), Some(TitleAB), Some("Tech"), Some(9)),
    Listing(Some(LocCA), Some(TitleAB), Some("Tech"), Some(4)) }

SalaryRecord(id, p50, period) ==
  [id |-> id, payPercentile50 |-> p50, payPeriod |-> period]

\* The rows of glassdoor_salary_salaries.csv.  Id 5 occurs twice, once
\* without a pay period; id 4 has no percentile-50 figure.
SalaryTable ==
  << SalaryRecord(Some(1), Some(50), Some("HOURLY")),
     SalaryRecord(Some(2), Some(10000), Some("MONTHLY")),
     SalaryRecord(Some(3), Some(80000), Some("ANNUAL")),
     SalaryRecord(Some(4), Null, Some("ANNUAL")),
     SalaryRecord(Some(5), Some(120000), Null),
     SalaryRecord(Some(5), Some(120000), Some("ANNUAL")),
     SalaryRecord(Some(6), Some(120000), Some("hourly")) >>

\* All sequences over S of length at most n.
SeqsUpTo(S, n) == UNION {[1..k -> S] : k \in 0..n}

Frame(cols, rows) == [cols |-> cols, rows |-> rows]

\* A set of columns, or the same set with one column missing.
ColumnVariants(all) == {all} \cup {all \ {c} : c \in all}

\* What the two files can hold when both are read: beside the full salary
\* table, every table of at most MaxRows complete listings and every table
\* of at most MaxMixedRows listings of any kind; and, with at most one
\* listing, every pair of files in which either may lack one column.
SourceFrames ==
  {<<Frame(MainColumns, rows), Frame(SalaryColumns, SalaryTable)>> :
      rows \in SeqsUpTo(CleanPool, MaxRows)
               \cup SeqsUpTo(CleanPool \cup IrregularPool, MaxMixedRows)}
  \cup {<<Frame(mc, rows), Frame(sc, SalaryTable)>> :
          mc \in ColumnVariants(MainColumns),
          sc \in ColumnVariants(SalaryColumns),
          rows \in SeqsUpTo({Listing(Some(LocCA), Some(TitleB), Some("Tech"), Some(2))}, 1)}

\* A file that was not read.
NoFrame == Frame({}, <<>>)

\* What the reads leave in df_main and df_salaries, given the condition of
\* each file: the second file is not read when the first read fails.
FramesRead(mainStatus, salStatus) ==
  IF mainStatus # "ok" THEN {<<NoFrame, NoFrame>>}
  ELSE IF salStatus # "ok"
    THEN {<<pair[1], NoFrame>> : pair \in {q \in SourceFrames : Len(q[1].rows) <= 1}}
    ELSE SourceFrames

\* The conditions a source file can be in when it is opened.
FileStatus == {"ok", "absent", "denied", "empty", "unparsable"}

\* pd.read_csv: the exception it ends with ("none" when it returns).
ReadCsvExc(status) ==
  CASE status = "ok" -> "none"
    [] status = "absent" -> "FileNotFoundError"
    [] status = "denied" -> "PermissionError"
    [] status = "empty" -> "EmptyDataError"
    [] status = "unparsable" -> "ParserError"

\* ------------------------------------------------------------- the loader

\* The rows of the right table whose key equals k, in the right table's order.
MatchingRows(right, k) == SelectSeq(right, LAMBDA s : s.id = k)

MergedRow(m, p50, period) ==
  [map_location |-> m.map_location, header_jobTitle |-> m.header_jobTitle,
   overview_industry |-> m.overview_industry,
   payPercentile50 |-> p50, payPeriod |-> period]

\* The rows a left join gives for one listing: one per matching salary
\* record, or one with empty salary cells when none matches.
JoinOne(m, right) ==
  LET hits == MatchingRows(right, m.salary_salaries)
  IN IF hits = <<>>
       THEN <<MergedRow(m, Null, Null)>>
       ELSE [i \in 1..Len(hits) |->
               MergedRow(m, hits[i].payPercentile50, hits[i].payPeriod)]

RECURSIVE JoinAll(_, _)
JoinAll(left, right) ==
  IF left = <<>> THEN <<>>
  ELSE JoinOne(Head(left), right) \o JoinAll(Tail(left), right)

\* pd.merge(df_main, df_salaries, left_on='salary.salaries', right_on='id',
\* how='left'): a KeyError when a key column is missing, else the joined
\* frame under a fresh index 0, 1, 2, ...
Merge(df_main, df_salaries) ==
  IF "salary.salaries" \notin df_main.cols \/ "id" \notin df_salaries.cols
    THEN [exc |-> "KeyError", cols |-> {}, rows |-> <<>>]
    ELSE LET joined == JoinAll(df_main.rows, df_salaries.rows)
         IN [exc |-> "none",
             cols |-> df_main.cols \cup df_salaries.cols,
             rows |-> [i \in 1..Len(joined) |->
                         [idx |-> i - 1, row |-> joined[i]]]]

required_columns ==
  {"map.location", "header.jobTitle", "overview.industry",
   "salary.salaries.val.salaryPercentileMap.payPercentile50",
   "salary.salaries.val.payPeriod"}

\* df_merged[list(required_columns.keys())].copy() and the rename.
Project(r) ==
  [idx |-> r.idx,
   location |-> r.row.map_location,
   job_title |-> r.row.header_jobTitle,
   industry |-> r.row.overview_industry,
   median_salary |-> r.row.payPercentile50,
   pay_period |-> r.row.payPeriod]

\* dropna(subset=['location', 'median_salary', 'job_title', 'pay_period',
\* 'industry']).
DropIncomplete(rows) ==
  SelectSeq(rows, LAMBDA r :
    /\ r.location # Null
    /\ r.median_salary # Null
    /\ r.job_title # Null
    /\ r.pay_period # Null
    /\ r.industry # Null)

HoursPerYear == 2080

MonthsPerYear == 12

\* standardize_salary with the monthly case forgotten.
standardize_salary_NoMonthly(row) ==
  LET salary == Val(row.median_salary)
      period == Val(row.pay_period)
  IN IF period = "HOURLY" THEN salary * HoursPerYear ELSE salary

standardize_salary(row) ==
  LET salary == Val(row.median_salary)
      period == Val(row.pay_period)
  IN IF period = "HOURLY" THEN salary * HoursPerYear
     ELSE IF period = "MONTHLY" THEN salary * MonthsPerYear
     ELSE salary

\* Whether position p of s is where the pattern's $ matches: the end of the
\* string, or just before a newline that ends it.
AtDollar(s, p) == p = Len(s) + 1 \/ (p = Len(s) /\ s[p] = "\n")

\* The matches of ,\s*([A-Z]{2})$ in s: <<i, k>> when the comma is at i and
\* k whitespace characters follow it.
StateMatches(s) ==
  {m \in (1..Len(s)) \X (0..Len(s)) :
     LET i == m[1]
         k == m[2]
     IN /\ i + k + 2 <= Len(s)
        /\ s[i] = ","
        /\ \A j \in (i + 1)..(i + k) : IsSpace(s[j])
        /\ s[i + k + 1] \in UpperAZ
        /\ s[i + k + 2] \in UpperAZ
        /\ AtDollar(s, i + k + 3)}

\* str.extract(r',\s*([A-Z]{2})$') on one location: the group of the
\* leftmost match, or NaN.
ExtractState(location) ==
  LET s == Val(location)
      ms == StateMatches(s)
  IN IF ms = {} THEN Null
     ELSE LET m == CHOOSE x \in ms : \A y \in ms : x[1] <= y[1]
          IN Some(<<s[m[1] + m[2] + 1], s[m[1] + m[2] + 2]>>)

\* Lines 82 and 86: the salary column annualised, the state column added.
Standardize(r) ==
  [idx |-> r.idx, location |-> r.location, job_title |-> r.job_title,
   industry |-> r.industry, median_salary |-> Some(standardize_salary(r)),
   pay_period |-> r.pay_period, state |-> ExtractState(r.location)]

\* Lines 88-89: rows without a state, or of the unknown industry, go.
KeepUsa(rows) ==
  SelectSeq(SelectSeq(rows, LAMBDA r : r.state # Null),
            LAMBDA r : r.industry # Some("-1"))

Returned(table) == [exc |-> "none", table |-> table]

Raised(exc) == [exc |-> exc, table |-> <<>>]

\* Lines 36-45: only FileNotFoundError is caught.  The first file is read
\* before the second.
ReadBoth(mainStatus, salStatus) ==
  IF ReadCsvExc(mainStatus) # "none" THEN ReadCsvExc(mainStatus)
  ELSE ReadCsvExc(salStatus)

\* load_and_prepare_data.  DataFrame.apply(axis=1) on a frame without rows
\* gives back a frame, not a column, and whether assigning it to
\* 'median_salary' raises depends on the pandas release: emptyApplyRaises.
load_and_prepare_data(mainStatus, salStatus, df_main, df_salaries, emptyApplyRaises) ==
  LET readExc == ReadBoth(mainStatus, salStatus)
      df_merged == Merge(df_main, df_salaries)
      df_clean == DropIncomplete([i \in 1..Len(df_merged.rows) |->
                                   Project(df_merged.rows[i])])
  IN IF readExc = "FileNotFoundError" THEN Returned(<<>>)
     ELSE IF readExc # "none" THEN Raised(readExc)
     ELSE IF df_merged.exc # "none" THEN Raised(df_merged.exc)
     ELSE IF ~(required_columns \subseteq df_merged.cols) THEN Returned(<<>>)
     ELSE IF df_clean = <<>> /\ emptyApplyRaises THEN Raised("ValueError")
     ELSE Returned(KeepUsa([i \in 1..Len(df_clean) |-> Standardize(df_clean[i])]))

\* ------------------------------------------------------ the search filter

\* str.strip(): leading and trailing whitespace removed.
RECURSIVE strip(_)
strip(s) ==
  IF s = <<>> THEN <<>>
  ELSE IF IsSpace(Head(s)) THEN strip(Tail(s))
  ELSE IF IsSpace(s[Len(s)]) THEN strip(SubSeq(s, 1, Len(s) - 1))
  ELSE s

\* Line 174: search_term and search_term.strip() != ''.
SearchActive(search_term) ==
  /\ search_term # Null
  /\ Val(search_term) # <<>>
  /\ strip(Val(search_term)) # <<>>

\* Whether re.compile rejects the pattern: a group that is opened and never
\* closed, or a + with nothing to repeat.
ReError(pat) ==
  \E i \in 1..Len(pat) :
    \/ pat[i] = "("
    \/ pat[i] = "+" /\ (i = 1 \/ pat[i - 1] = "+")

\* The pattern as a sequence of items: a character (or the wildcard .),
\* repeated one or more times when a + follows it.
RECURSIVE ReItems(_)
ReItems(pat) ==
  IF pat = <<>> THEN <<>>
  ELSE IF Len(pat) >= 2 /\ pat[2] = "+"
    THEN <<[c |-> pat[1], plus |-> TRUE]>> \o ReItems(SubSeq(pat, 3, Len(pat)))
    ELSE <<[c |-> pat[1], plus |-> FALSE]>> \o ReItems(Tail(pat))

\* One item against one character, under re.IGNORECASE.
ReCharMatches(item, ch) ==
  IF item.c = "." THEN ch # "\n" ELSE Lower(item.c) = Lower(ch)

\* Whether items k.. match s from position i on.
RECURSIVE ReMatchHere(_, _, _, _)
ReMatchHere(items, k, s, i) ==
  IF k > Len(items) THEN TRUE
  ELSE IF items[k].plus
    THEN \E n \in 1..(Len(s) - i + 1) :
           /\ \A j \in i..(i + n - 1) : ReCharMatches(items[k], s[j])
           /\ ReMatchHere(items, k + 1, s, i + n)
    ELSE /\ i <= Len(s)
         /\ ReCharMatches(items[k], s[i])
         /\ ReMatchHere(items, k + 1, s, i + 1)

\* regex.search(s) is not None.
ReSearch(pat, s) ==
  \E i \in 1..(Len(s) + 1) : ReMatchHere(ReItems(pat), 1, s, i)

\* Series.str.contains(pat, case=False): pat is a regular expression
\* (regex=True is the default).
StrContains(s, pat) == ReSearch(pat, s)

\* Line 175.  re.error leaves the callback before anything is filtered.
ApplySearch(table, search_term) ==
  IF ~SearchActive(search_term) THEN [exc |-> "none", rows |-> table]
  ELSE IF ReError(Val(search_term)) THEN [exc |-> "re.error", rows |-> <<>>]
  ELSE [exc |-> "none",
        rows |-> SelectSeq(table, LAMBDA r :
                   StrContains(Val(r.job_title), Val(search_term)))]

\* ApplyIndustry without the special case of 'All Industries'.
ApplyIndustry_NoSentinel(table, selected_industry) ==
  SelectSeq(table, LAMBDA r : r.industry = Some(selected_industry))

\* Lines 181-182.
ApplyIndustry(table, selected_industry) ==
  IF selected_industry # "All Industries"
    THEN SelectSeq(table, LAMBDA r : r.industry = Some(selected_industry))
    ELSE table

\* Lines 171-185: the search filter, then the industry filter.
FilterTable(table, selected_industry, search_term) ==
  LET searched == ApplySearch(table, search_term)
  IN IF searched.exc # "none" THEN searched
     ELSE [exc |-> "none", rows |-> ApplyIndustry(searched.rows, selected_industry)]

\* --------------------------------------------------------- the aggregator

\* The text "N/A".
NA == <<"N", "/", "A">>

\* The order of Python strings: by code point, a prefix before what extends it.
RECURSIVE StrLess(_, _)
StrLess(a, b) ==
  IF b = <<>> THEN FALSE
  ELSE IF a = <<>> THEN TRUE
  ELSE IF Ord(Head(a)) # Ord(Head(b)) THEN Ord(Head(a)) < Ord(Head(b))
  ELSE StrLess(Tail(a), Tail(b))

\* The values of one column.
Column(rows, field) == [i \in 1..Len(rows) |-> Val(rows[i][field])]

\* The value of the first row in place of the greatest.
SeriesMax_First(xs) == xs[1]

\* Series.max().
SeriesMax(xs) == CHOOSE m \in {xs[i] : i \in 1..Len(xs)} : \A j \in 1..Len(xs) : xs[j] <= m

\* The values in ascending order.
RECURSIVE SortAsc(_)
SortAsc(xs) ==
  IF xs = <<>> THEN <<>>
  ELSE LET i == CHOOSE i \in 1..Len(xs) : \A j \in 1..Len(xs) : xs[i] <= xs[j]
       IN <<xs[i]>> \o SortAsc(SubSeq(xs, 1, i - 1) \o SubSeq(xs, i + 1, Len(xs)))

\* The median taken as the upper of the two middle values.
SeriesMedian_UpperMiddle(xs) == SortAsc(xs)[Len(xs) \div 2 + 1]

\* Series.median(): the middle value, or the mean of the two middle values.
\* Every salary of the model is even, so the mean is a whole number.
SeriesMedian(xs) ==
  LET sorted == SortAsc(xs)
      n == Len(xs)
  IN IF n % 2 = 1 THEN sorted[(n + 1) \div 2]
     ELSE (sorted[n \div 2] + sorted[n \div 2 + 1]) \div 2

\* How often v occurs.
CountOf(xs, v) == Cardinality({i \in 1..Len(xs) : xs[i] = v})

\* Series.mode(): the most frequent values, sorted ascending.  The set of
\* them is returned here, with ModeFirst for .iloc[0].
SeriesMode(xs) ==
  {v \in {xs[i] : i \in 1..Len(xs)} :
     \A j \in 1..Len(xs) : CountOf(xs, xs[j]) <= CountOf(xs, v)}

\* x.mode().iloc[0]: the least of the most frequent values.
ModeFirst(xs) ==
  CHOOSE v \in SeriesMode(xs) :
    \A w \in SeriesMode(xs) : w = v \/ StrLess(v, w)

\* The keys of groupby('state'), in the sorted order groupby gives them.
RECURSIVE SortKeys(_)
SortKeys(keys) ==
  IF keys = {} THEN <<>>
  ELSE LET k == CHOOSE k \in keys : \A other \in keys : other = k \/ StrLess(k, other)
       IN <<k>> \o SortKeys(keys \ {k})

GroupKeys(rows) == SortKeys({Val(rows[i].state) : i \in 1..Len(rows)})

\* The rows of one group, in the table's order.
Group(rows, key) == SelectSeq(rows, LAMBDA r : r.state = Some(key))

\* Lines 199-203: one row per state with its median, maximum and mode.
StateAgg(rows) ==
  LET keys == GroupKeys(rows)
  IN [g \in 1..Len(keys) |->
        LET grp == Group(rows, keys[g])
            x == Column(grp, "job_title")
        IN [state |-> keys[g],
            median_salary |-> SeriesMedian(Column(grp, "median_salary")),
            max_salary |-> SeriesMax(Column(grp, "median_salary")),
            common_job |-> IF SeriesMode(x) # {} THEN ModeFirst(x)
                           ELSE NA]]

\* The label of the last row that holds the maximum in place of the first.
IdxMax_Last(grp) ==
  LET xs == Column(grp, "median_salary")
      i == CHOOSE i \in 1..Len(grp) :
             /\ xs[i] = SeriesMax(xs)
             /\ \A j \in (i + 1)..Len(grp) : xs[j] # SeriesMax(xs)
  IN grp[i].idx

\* The position within the group (as argmax gives it) in place of the label.
IdxMax_Position(grp) ==
  LET xs == Column(grp, "median_salary")
  IN (CHOOSE i \in 1..Len(grp) :
        /\ xs[i] = SeriesMax(xs)
        /\ \A j \in 1..(i - 1) : xs[j] # SeriesMax(xs)) - 1

\* Series.idxmax() on one group: the index label of the first row that
\* holds the maximum.
IdxMax(grp) ==
  LET xs == Column(grp, "median_salary")
      i == CHOOSE i \in 1..Len(grp) :
             /\ xs[i] = SeriesMax(xs)
             /\ \A j \in 1..(i - 1) : xs[j] # SeriesMax(xs)
  IN grp[i].idx

\* filtered_df.loc[labels]: for each label in turn, the rows that carry it.
RECURSIVE Loc(_, _)
Loc(rows, labels) ==
  IF labels = <<>> THEN <<>>
  ELSE SelectSeq(rows, LAMBDA r : r.idx = Head(labels)) \o Loc(rows, Tail(labels))

\* Lines 207-208: state and job title of each state's best-paid row.
HighestPaidJobs(rows) ==
  LET keys == GroupKeys(rows)
      picked == Loc(rows, [g \in 1..Len(keys) |-> IdxMax(Group(rows, keys[g]))])
  IN [i \in 1..Len(picked) |->
        [state |-> Val(picked[i].state), highest_paid_job |-> Val(picked[i].job_title)]]

\* Line 211: pd.merge(df_state_agg, highest_paid_jobs, on='state'), an
\* inner join.
RECURSIVE MergeOnState(_, _)
MergeOnState(agg, jobs) ==
  IF agg = <<>> THEN <<>>
  ELSE LET a == Head(agg)
           hits == SelectSeq(jobs, LAMBDA j : j.state = a.state)
       IN [i \in 1..Len(hits) |->
             [state |-> a.state, median_salary |-> a.median_salary,
              max_salary |-> a.max_salary, common_job |-> a.common_job,
              highest_paid_job |-> hits[i].highest_paid_job]]
          \o MergeOnState(Tail(agg), jobs)

FinalAgg(rows) == MergeOnState(StateAgg(rows), HighestPaidJobs(rows))

\* ------------------------------------------------------------ the cards

DigitChar(d) ==
  CASE d = 0 -> "0" [] d = 1 -> "1" [] d = 2 -> "2" [] d = 3 -> "3"
    [] d = 4 -> "4" [] d = 5 -> "5" [] d = 6 -> "6" [] d = 7 -> "7"
    [] d = 8 -> "8" [] d = 9 -> "9"

RECURSIVE Digits(_)
Digits(n) ==
  IF n < 10 THEN <<DigitChar(n)>>
  ELSE Append(Digits(n \div 10), DigitChar(n % 10))

\* The digits with a comma before every group of three.
RECURSIVE Grouped(_)
Grouped(ds) ==
  IF Len(ds) <= 3 THEN ds
  ELSE Grouped(SubSeq(ds, 1, Len(ds) - 3)) \o <<",">> \o SubSeq(ds, Len(ds) - 2, Len(ds))

\* f"${x:,.0f}" for a whole, non-negative x.
FormatDollars(x) == <<"$">> \o Grouped(Digits(x))

\* ---------------------------------------------------------- the callback

\* An emptiness test that is off by one row.
IsEmpty_OffByOne(table) == Len(table) <= 1

\* DataFrame.empty.
IsEmpty(table) == table = <<>>

\* What one invocation gives back: the figure and the two cards, or the
\* exception it ends with; filtered_df is <<>> when the invocation ended
\* before the filters were done.
CallResult(exc, fig, maxCard, jobCard, filtered) ==
  [exc |-> exc, fig |-> fig, max_salary_card |-> maxCard,
   common_job_card |-> jobCard, filtered_df |-> filtered]

\* Line 168.
PlaceholderResult == CallResult("none", [kind |-> "placeholder"], NA, NA, Null)

\* Lines 189-191.
NoDataResult(filtered) == CallResult("none", [kind |-> "nodata"], NA, NA, Some(filtered))

\* Lines 193-248: the cards and the map of a table that has rows.
Aggregate(filtered, selected_industry, search_term) ==
  CallResult("none",
    [kind |-> "map",
     data |-> FinalAgg(filtered),
     title_search |-> IF SearchActive(search_term) THEN search_term ELSE Null,
     title_industry |-> selected_industry],
    FormatDollars(SeriesMax(Column(filtered, "median_salary"))),
    ModeFirst(Column(filtered, "job_title")),
    Some(filtered))

update_map_and_cards(table, selected_industry, search_term) ==
  IF IsEmpty(table) THEN PlaceholderResult
  ELSE LET f == FilterTable(table, selected_industry, search_term)
       IN IF f.exc # "none"
            THEN CallResult(f.exc, [kind |-> "none"], Null, Null, Null)
          ELSE IF IsEmpty(f.rows) THEN NoDataResult(f.rows)
          ELSE Aggregate(f.rows, selected_industry, search_term)

\* The filters applied to the module's table itself.
DfAfterCall_InPlace(table, filtered) ==
  IF filtered = Null THEN table ELSE Val(filtered)

\* Line 171: the filters work on a copy; the module's table stays as it is.
DfAfterCall(table, filtered) == table

\* The values the industry dropdown sends.
Industries == {"All Industries", "Tech"}

\* The values the search box sends: nothing, or a text.
SearchTerms ==
  { Null, Some(<<>>), Some(<<" ">>), Some(<<"a">>), Some(<<".">>),
    Some(<<"a", "+">>), Some(<<"(">>), Some(<<" ", "a">>) }

\* ------------------------------------------- the pages that call the BLS API

\* requests.post(..., timeout=10) in fetch_bls_data: the seconds without
\* an answer after which requests raises.
Page1Timeout == 10

\* A request in flight: its timeout (Null for none, as requests.post has it
\* by default) and the seconds it has waited for the server so far.
Post(timeout) == [timeout |-> timeout, elapsed |-> 0]

\* What can come of a POST to api.bls.gov once the server or the network
\* answers.
HomeResponses == {"data", "no_series", "bad_json", "connection_error"}

BlsResponses ==
  {"data", "http_error", "connection_error", "bad_json", "no_results",
   "empty_series", "no_data", "no_valid_rows"}

\* fun_fact.py lines 24-45, once the POST has ended: the months and values,
\* or (None, None) when there is no data or anything raised.
get_unemployment_data(response) ==
  IF response = "data" THEN "months, values" ELSE "None, None"

\* fun_fact.py lines 48-58.
get_unemployment_fact(data) ==
  IF data = "None, None" THEN "out of fun-facts" ELSE "unemployment rate"

\* graph_fact.py lines 4-42.
get_unemployment_graph(data) ==
  IF data = "None, None" THEN "quota message" ELSE "rate chart"

\* page1.py lines 63-99, once the POST has ended ("timeout" when requests
\* gave up waiting): the exception raised, or "none" and the data frame.
fetch_bls_data(response) ==
  CASE response \in {"http_error", "connection_error", "timeout"} -> "ConnectionError"
    [] response \in {"bad_json", "no_data", "no_valid_rows"} -> "ValueError"
    [] response = "no_results" -> "KeyError"
    [] response = "empty_series" -> "IndexError"
    [] response = "data" -> "none"

\* page1.py lines 121-132: the line chart, or the figure that shows the
\* error.
update_forecast(exc) ==
  IF exc = "none" THEN [kind |-> "line"] ELSE [kind |-> "error", exc |-> exc]

\* The values the industry dropdown of page1 sends: a series id, or none.
SeriesIds == {Null, Some("JTS000000000000000JOR")}

VARIABLES
  n_clicks,           \* the clicks on fun-fact-button so far
  home_pc,            \* where show_fun_fact stands: "load", "idle",
                      \* "fact" or "graph" while it waits for a POST
  home_post,          \* the request show_fun_fact waits for, or Null
  fun_fact,           \* the outputs of show_fun_fact
  unemployment_graph,
  page1_pc,           \* where update_forecast stands: "idle" or "post"
  page1_post,         \* the request update_forecast waits for, or Null
  forecast_graph      \* the output of update_forecast

fetchVars ==
  <<n_clicks, home_pc, home_post, fun_fact, unemployment_graph,
    page1_pc, page1_post, forecast_graph>>

FetchInit ==
  /\ n_clicks = 0
  /\ home_pc = "load"
  /\ home_post = Null
  /\ fun_fact = "none"
  /\ unemployment_graph = "none"
  /\ page1_pc = "idle"
  /\ page1_post = Null
  /\ forecast_graph = [kind |-> "none"]

\* ------------------------------------------------------ the state machine

VARIABLES
  mainStatus,         \* the condition of data/glassdoor.csv
  salStatus,          \* the condition of data/glassdoor_salary_salaries.csv
  df_main,            \* what was read from glassdoor.csv
  df_salaries,        \* what was read from glassdoor_salary_salaries.csv
  pc,                 \* "import", "serving", or "crashed" when the import raised
  importExc,          \* the exception load_and_prepare_data raised, or "none"
  df,                 \* the module-level cleaned table
  selected_industry,  \* the inputs of the last invocation of the callback
  search_term,
  result,             \* what the last invocation gave back
  calls               \* the invocations so far

salaryVars ==
  <<mainStatus, salStatus, df_main, df_salaries, pc, importExc, df,
    selected_industry, search_term, result, calls>>

vars == <<salaryVars, fetchVars>>

NoCall == CallResult("none", [kind |-> "none"], Null, Null, Null)

Init ==
  /\ mainStatus \in FileStatus
  /\ salStatus \in FileStatus
  /\ df_main = NoFrame
  /\ df_salaries = NoFrame
  /\ pc = "import"
  /\ importExc = "none"
  /\ df = <<>>
  /\ selected_industry = "All Industries"
  /\ search_term = Null
  /\ result = NoCall
  /\ calls = 0
  /\ FetchInit

\* Line 96: df = load_and_prepare_data(), when the page module is imported.
Import ==
  /\ pc = "import"
  /\ \E read \in FramesRead(mainStatus, salStatus), emptyApplyRaises \in BOOLEAN :
       LET loaded == load_and_prepare_data(mainStatus, salStatus, read[1], read[2],
                                           emptyApplyRaises)
       IN /\ df_main' = read[1]
          /\ df_salaries' = read[2]
          /\ importExc' = loaded.exc
          /\ pc' = IF loaded.exc = "none" THEN "serving" ELSE "crashed"
          /\ df' = loaded.table
  /\ UNCHANGED <<mainStatus, salStatus, selected_industry, search_term, result, calls>>
  /\ UNCHANGED fetchVars

\* One invocation of the callback by the framework.
UpdateMapAndCards ==
  /\ pc = "serving"
  /\ calls < MaxCalls
  /\ \E industry \in Industries, term \in SearchTerms :
       LET r == update_map_and_cards(df, industry, term)
       IN /\ selected_industry' = industry
          /\ search_term' = term
          /\ result' = r
          /\ df' = DfAfterCall(df, r.filtered_df)
  /\ calls' = calls + 1
  /\ UNCHANGED <<mainStatus, salStatus, df_main, df_salaries, pc, importExc>>
  /\ UNCHANGED fetchVars

Next == Import \/ UpdateMapAndCards

Spec == Init /\ [][Next]_vars

\* ------------------------------------- the callbacks that call the BLS API

\* home.py lines 103-105: the invocation Dash makes when the page loads,
\* with n_clicks = 0.
LoadHome ==
  /\ home_pc = "load"
  /\ n_clicks = 0
  /\ fun_fact' = "empty"
  /\ unemployment_graph' = "empty"
  /\ home_pc' = "idle"
  /\ UNCHANGED <<n_clicks, home_post, page1_pc, page1_post, forecast_graph>>
  /\ UNCHANGED salaryVars

\* A click: show_fun_fact runs to the POST of get_unemployment_fact
\* (home.py line 107, fun_fact.py line 25), which passes no timeout.
ClickFunFact ==
  /\ home_pc = "idle"
  /\ n_clicks < MaxClicks
  /\ n_clicks' = n_clicks + 1
  /\ home_pc' = "fact"
  /\ home_post' = Some(Post(Null))
  /\ UNCHANGED <<fun_fact, unemployment_graph, page1_pc, page1_post, forecast_graph>>
  /\ UNCHANGED salaryVars

\* The first POST ends: the fact is made, and show_fun_fact goes on to the
\* POST of get_unemployment_graph (home.py line 120, graph_fact.py line 5).
FactResponse ==
  /\ home_pc = "fact"
  /\ \E response \in HomeResponses :
       fun_fact' = get_unemployment_fact(get_unemployment_data(response))
  /\ home_pc' = "graph"
  /\ home_post' = Some(Post(Null))
  /\ UNCHANGED <<n_clicks, unemployment_graph, page1_pc, page1_post, forecast_graph>>
  /\ UNCHANGED salaryVars

\* The second POST ends: show_fun_fact returns the fact and the graph.
GraphResponse ==
  /\ home_pc = "graph"
  /\ \E response \in HomeResponses :
       unemployment_graph' = get_unemployment_graph(get_unemployment_data(response))
  /\ home_pc' = "idle"
  /\ home_post' = Null
  /\ UNCHANGED <<n_clicks, fun_fact, page1_pc, page1_post, forecast_graph>>
  /\ UNCHANGED salaryVars

\* page1.py lines 121-123 and 53-64: update_forecast is invoked; without a
\* series id fetch_bls_data raises at once, else it sends its POST.
UpdateForecast ==
  /\ page1_pc = "idle"
  /\ \E series_id \in SeriesIds :
       IF series_id = Null
         THEN /\ forecast_graph' = update_forecast("ValueError")
              /\ UNCHANGED <<page1_pc, page1_post>>
         ELSE /\ page1_pc' = "post"
              /\ page1_post' = Some(Post(Some(Page1Timeout)))
              /\ UNCHANGED forecast_graph
  /\ UNCHANGED <<n_clicks, home_pc, home_post, fun_fact, unemployment_graph>>
  /\ UNCHANGED salaryVars

\* The POST of fetch_bls_data ends before its timeout: update_forecast
\* returns the chart or the figure of the error.
ForecastResponse ==
  /\ page1_pc = "post"
  /\ \E response \in BlsResponses :
       forecast_graph' = update_forecast(fetch_bls_data(response))
  /\ page1_pc' = "idle"
  /\ page1_post' = Null
  /\ UNCHANGED <<n_clicks, home_pc, home_post, fun_fact, unemployment_graph>>
  /\ UNCHANGED salaryVars

\* The server has been silent for the timeout of the POST: requests raises,
\* and update_forecast returns the figure of the error.
ForecastTimeout ==
  /\ page1_pc = "post"
  /\ Val(page1_post).elapsed >= Val(Val(page1_post).timeout)
  /\ forecast_graph' = update_forecast(fetch_bls_data("timeout"))
  /\ page1_pc' = "idle"
  /\ page1_post' = Null
  /\ UNCHANGED <<n_clicks, home_pc, home_post, fun_fact, unemployment_graph>>
  /\ UNCHANGED salaryVars

\* Whether a request can wait one more second: it is in flight, short of
\* its timeout if it has one, and short of the longest wait counted.
CanWait(post) ==
  /\ post # Null
  /\ Val(post).elapsed < MaxWait
  /\ Val(post).timeout # Null => Val(post).elapsed < Val(Val(post).timeout)

Waited(post) ==
  IF CanWait(post)
    THEN Some([Val(post) EXCEPT !.elapsed = Val(post).elapsed + 1])
    ELSE post

\* A second passes without an answer from the server.
Tick ==
  /\ CanWait(home_post) \/ CanWait(page1_post)
  /\ home_post' = Waited(home_post)
  /\ page1_post' = Waited(page1_post)
  /\ UNCHANGED <<n_clicks, home_pc, fun_fact, unemployment_graph, page1_pc,
                 forecast_graph>>
  /\ UNCHANGED salaryVars

\* The two pages alone, the salary page left as it starts.
FetchStart == Init /\ mainStatus = "ok" /\ salStatus = "ok"

FetchNext ==
  \/ LoadHome
  \/ ClickFunFact
  \/ FactResponse
  \/ GraphResponse
  \/ UpdateForecast
  \/ ForecastResponse
  \/ ForecastTimeout
  \/ Tick

FetchSpec == FetchStart /\ [][FetchNext]_vars

\* ------------------------------------------------------------- the loader's claims

\* The joined table the loader worked on.
MergedRows == Merge(df_main, df_salaries).rows

\* The joined row a cleaned row comes from (index labels start at 0).
SourceOf(r) == MergedRows[r.idx + 1].row

Rows(table) == {table[i] : i \in 1..Len(table)}

\* C1: every row of the cleaned table holds the percentile-50 figure of the
\* joined row it comes from, times 2080 when that row's pay period is
\* HOURLY, times 12 when it is MONTHLY, and unchanged for any other period.
C1_AnnualSalary ==
  pc = "serving" =>
    \A r \in Rows(df) :
      LET m == SourceOf(r)
      IN /\ m.payPercentile50 # Null
         /\ m.payPeriod # Null
         /\ r.median_salary # Null
         /\ Val(r.median_salary) =
              Val(m.payPercentile50) *
                (IF Val(m.payPeriod) = "HOURLY" THEN 2080
                 ELSE IF Val(m.payPeriod) = "MONTHLY" THEN 12
                 ELSE 1)

\* A cleaned table with an hourly 50 that became 104000, a monthly row and
\* a row of another period.
C1_Witness ==
  /\ pc = "serving"
  /\ \E r \in Rows(df) :
       /\ r.pay_period = Some("HOURLY")
       /\ SourceOf(r).payPercentile50 = Some(50)
       /\ r.median_salary = Some(104000)
  /\ \E r \in Rows(df) :
       r.pay_period = Some("MONTHLY") /\ r.median_salary = Some(120000)
  /\ \E r \in Rows(df) :
       r.pay_period = Some("hourly") /\ r.median_salary = Some(120000)

\* Whether st is the two uppercase letters that end loc after a comma and
\* any whitespace.
EndsInState(loc, st) ==
  /\ Len(st) = 2
  /\ st[1] \in UpperAZ
  /\ st[2] \in UpperAZ
  /\ Len(loc) >= 3
  /\ loc[Len(loc) - 1] = st[1]
  /\ loc[Len(loc)] = st[2]
  /\ \E i \in 1..(Len(loc) - 2) :
       /\ loc[i] = ","
       /\ \A j \in (i + 1)..(Len(loc) - 2) : IsSpace(loc[j])

\* Whether some two uppercase letters end loc in that way.
EndsInSomeState(loc) ==
  Len(loc) >= 3 /\ EndsInState(loc, <<loc[Len(loc) - 1], loc[Len(loc)]>>)

\* C2: every row of the cleaned table has a location, a job title, an
\* industry other than "-1", a salary, and a state that is the two
\* uppercase letters ending its location after the last comma; and a
\* joined row that lacks one of these has no row in the cleaned table.
C2_CleanRows ==
  pc = "serving" =>
    /\ \A r \in Rows(df) :
         /\ r.location # Null
         /\ r.job_title # Null
         /\ r.industry # Null
         /\ r.median_salary # Null
         /\ r.state # Null
         /\ EndsInState(Val(r.location), Val(r.state))
         /\ r.industry # Some("-1")
    /\ \A m \in Rows(MergedRows) :
         (\/ m.row.map_location = Null
          \/ m.row.header_jobTitle = Null
          \/ m.row.overview_industry = Null
          \/ m.row.overview_industry = Some("-1")
          \/ m.row.payPercentile50 = Null
          \/ ~EndsInSomeState(Val(m.row.map_location)))
         => \A r \in Rows(df) : r.idx # m.idx

\* C3: when either source file is absent, not permitted, empty or
\* unparsable, the import ends without an exception and with an empty
\* table, and every invocation of the callback gives the "N/A" result.
C3_UnreadableFileGivesEmpty ==
  (pc # "import" /\ (mainStatus # "ok" \/ salStatus # "ok")) =>
    /\ pc = "serving"
    /\ importExc = "none"
    /\ df = <<>>
    /\ calls > 0 => result = PlaceholderResult

\* C4: when both files are read and a join key column or a projected
\* column is missing, the import ends without an exception and with an
\* empty table.
C4_MissingColumnGivesEmpty ==
  (/\ pc # "import"
   /\ mainStatus = "ok"
   /\ salStatus = "ok"
   /\ \/ "salary.salaries" \notin df_main.cols
      \/ "id" \notin df_salaries.cols
      \/ ~(required_columns \subseteq df_main.cols \cup df_salaries.cols)) =>
    /\ pc = "serving"
    /\ importExc = "none"
    /\ df = <<>>

\* ----------------------------------------------------------- the callback's claims

\* An invocation of the callback on a table that has rows.
Called == pc = "serving" /\ calls > 0 /\ df # <<>>

\* Whether b occurs in a as a run of characters, letter case apart.
ContainsLiteral(a, b) ==
  \E i \in 1..(Len(a) - Len(b) + 1) :
    \A j \in 1..Len(b) : Lower(a[i + j - 1]) = Lower(b[j])

\* C5: with no industry selected, the rows kept for a search term that is
\* not blank are exactly those whose job title contains the term as it is
\* written, letter case apart, whatever characters the term holds; a term
\* that is None, empty or blank removes no row.
C5_LiteralSearch ==
  (Called /\ selected_industry = "All Industries") =>
    /\ result.exc = "none"
    /\ result.filtered_df =
         Some(IF SearchActive(search_term)
                THEN SelectSeq(df, LAMBDA r :
                       ContainsLiteral(Val(r.job_title), Val(search_term)))
                ELSE df)

\* The search predicate and the category predicate of the last invocation.
KeptBySearch(r) ==
  SearchActive(search_term) => StrContains(Val(r.job_title), Val(search_term))

KeptByCategory(r) ==
  selected_industry # "All Industries" => Val(r.industry) = selected_industry

\* Whether the search term of the last invocation is one re.compile rejects.
SearchRejected == SearchActive(search_term) /\ ReError(Val(search_term))

\* The rows of the cleaned table that satisfy both predicates, in order.
Survivors == SelectSeq(df, LAMBDA r : KeptBySearch(r) /\ KeptByCategory(r))

\* The category filter first, the search filter second.
CategoryThenSearch ==
  ApplySearch(ApplyIndustry(df, selected_industry), search_term)

LoadedTable ==
  load_and_prepare_data(mainStatus, salStatus, df_main, df_salaries, FALSE).table

\* C7: whatever invocations there have been, the module's table is the one
\* the loader returned, and the last invocation gave what its inputs give
\* on that table, so the same inputs give the same result every time.
C7_TableUnchanged ==
  pc = "serving" =>
    /\ df = LoadedTable
    /\ calls > 0 =>
         result = update_map_and_cards(LoadedTable, selected_industry, search_term)

\* A second invocation whose filters removed rows, the table still whole.
C7_Witness ==
  /\ Called
  /\ calls >= 2
  /\ result.filtered_df # Null
  /\ Len(Val(result.filtered_df)) < Len(df)
  /\ df = LoadedTable

\* The result that stands for "no data": a figure without data and "N/A"
\* on both cards.
IsNoData(r) ==
  /\ r.exc = "none"
  /\ r.fig.kind \in {"placeholder", "nodata"}
  /\ r.max_salary_card = NA
  /\ r.common_job_card = NA

StatesOf(rows) == {Val(r.state) : r \in Rows(rows)}

\* C9: the region aggregate has one row for each state of the filtered
\* table, none twice, and no row for any other state.
C9_OneRowPerState ==
  (Called /\ result.fig.kind = "map") =>
    LET data == result.fig.data
    IN /\ {data[i].state : i \in 1..Len(data)} = StatesOf(Survivors)
       /\ \A i, j \in 1..Len(data) : data[i].state = data[j].state => i = j
       /\ Len(data) = Cardinality(StatesOf(Val(result.filtered_df)))

\* An aggregate of two states, one of them with two rows.
C9_Witness ==
  /\ Called
  /\ result.fig.kind = "map"
  /\ Len(result.fig.data) = 2
  /\ Len(Val(result.filtered_df)) = 3

\* The salaries of the filtered rows of one state.
SalariesOf(rows, st) ==
  LET grp == SelectSeq(rows, LAMBDA r : Val(r.state) = st)
  IN [i \in 1..Len(grp) |-> Val(grp[i].median_salary)]

\* Whether v is the k-th smallest of xs.
IsKthSmallest(xs, k, v) ==
  /\ \E i \in 1..Len(xs) : xs[i] = v
  /\ Cardinality({i \in 1..Len(xs) : xs[i] < v}) < k
  /\ k <= Cardinality({i \in 1..Len(xs) : xs[i] <= v})

\* Whether m is the median of xs: the middle value, or the mean of the two
\* middle values.
IsMedian(xs, m) ==
  LET n == Len(xs)
  IN IF n % 2 = 1 THEN IsKthSmallest(xs, (n + 1) \div 2, m)
     ELSE \E i, j \in 1..n :
            /\ IsKthSmallest(xs, n \div 2, xs[i])
            /\ IsKthSmallest(xs, n \div 2 + 1, xs[j])
            /\ 2 * m = xs[i] + xs[j]

\* C10: each row of the region aggregate holds the median of the salaries
\* of its state's filtered rows (the mean of the two middle ones when their
\* number is even) and their maximum.
C10_MedianAndMax ==
  (Called /\ result.fig.kind = "map") =>
    \A a \in Rows(result.fig.data) :
      LET xs == SalariesOf(Survivors, a.state)
      IN /\ xs # <<>>
         /\ IsMedian(xs, a.median_salary)
         /\ \E i \in 1..Len(xs) : xs[i] = a.max_salary
         /\ \A i \in 1..Len(xs) : xs[i] <= a.max_salary

\* Two NY rows of 80000 and 120000 with median 100000 and maximum 120000,
\* beside a state with a single row.
C10_Witness ==
  /\ Called
  /\ result.fig.kind = "map"
  /\ \E a \in Rows(result.fig.data) :
       /\ a.state = <<"N", "Y">>
       /\ Len(SalariesOf(Survivors, a.state)) = 2
       /\ a.median_salary = 100000
       /\ a.max_salary = 120000
  /\ \E a \in Rows(result.fig.data) :
       /\ Len(SalariesOf(Survivors, a.state)) = 1
       /\ a.median_salary = a.max_salary

\* ------------------------------------------------------------ the cards' claims

\* The greatest salary of the rows the filters keep, whatever their state.
OverallMax ==
  CHOOSE m \in {Val(r.median_salary) : r \in Rows(Survivors)} :
    \A r \in Rows(Survivors) : Val(r.median_salary) <= m

\* C11 as the specification words it: the card of the highest salary holds
\* the greatest salary of all filtered rows as the bare number, nothing but
\* its digits.
C11_RawNumericMax ==
  (Called /\ result.fig.kind = "map") =>
    result.max_salary_card = Digits(OverallMax)

\* The characters of a card after its first, separators left out.
CardDigits(card) == SelectSeq(Tail(card), LAMBDA c : c # ",")

\* C11: the card of the highest salary is the greatest salary of all
\* filtered rows, across the states, written as a dollar sign, then its
\* digits with a comma before every group of three.
C11_FormattedOverallMax ==
  (Called /\ result.fig.kind = "map") =>
    LET card == result.max_salary_card
    IN /\ card[1] = "$"
       /\ CardDigits(card) = Digits(OverallMax)
       /\ \A i \in 2..Len(card) : (card[i] = ",") <=> ((Len(card) - i) % 4 = 3)

\* NY with 80000 and TX with 104000: the card reads $104,000, more than
\* the maximum of the aggregate's first state and than the first row.
C11_Witness ==
  /\ Called
  /\ result.fig.kind = "map"
  /\ Len(result.fig.data) = 2
  /\ result.fig.data[1].max_salary < OverallMax
  /\ Val(Survivors[1].median_salary) < OverallMax
  /\ result.max_salary_card = <<"$", "1", "0", "4", ",", "0", "0", "0">>

\* The job titles of the rows, in row order, and those of one state.
TitlesOf(rows) == [i \in 1..Len(rows) |-> Val(rows[i].job_title)]

StateTitlesOf(rows, st) ==
  TitlesOf(SelectSeq(rows, LAMBDA r : Val(r.state) = st))

\* How often v occurs in xs, and where it occurs first.
Occurrences(xs, v) == Cardinality({i \in 1..Len(xs) : xs[i] = v})

FirstOccurrence(xs, v) ==
  CHOOSE i \in 1..Len(xs) : xs[i] = v /\ \A j \in 1..(i - 1) : xs[j] # v

\* Whether v occurs in xs as often as any value does.
IsMostFrequent(xs, v) ==
  /\ \E i \in 1..Len(xs) : xs[i] = v
  /\ \A j \in 1..Len(xs) : Occurrences(xs, xs[j]) <= Occurrences(xs, v)

\* Whether v is the most frequent value of xs that occurs first in xs.
IsEarliestMostFrequent(xs, v) ==
  /\ IsMostFrequent(xs, v)
  /\ \A j \in 1..Len(xs) :
       IsMostFrequent(xs, xs[j]) => FirstOccurrence(xs, v) <= j

\* C12: the card of the most common job names a title of greatest frequency
\* among all filtered rows, and each row of the region aggregate one of
\* greatest frequency among its state's rows; of several titles that tie,
\* each names the one whose first occurrence is earliest in row order.
C12_EarliestMostFrequent ==
  (Called /\ result.fig.kind = "map") =>
    /\ IsEarliestMostFrequent(TitlesOf(Survivors), result.common_job_card)
    /\ \A a \in Rows(result.fig.data) :
         IsEarliestMostFrequent(StateTitlesOf(Survivors, a.state), a.common_job)

\* The filtered rows of one state, in row order.
StateRows(rows, st) == SelectSeq(rows, LAMBDA r : Val(r.state) = st)

\* Whether row i of grp is paid at least as well as every row of grp and
\* better than every row before it.
IsFirstBestPaid(grp, i) ==
  /\ \A j \in 1..Len(grp) : Val(grp[j].median_salary) <= Val(grp[i].median_salary)
  /\ \A j \in 1..(i - 1) : Val(grp[j].median_salary) < Val(grp[i].median_salary)

\* C13: each state of the filtered table has exactly one row in the region
\* aggregate; its highest_paid_job is the job title of a filtered row of
\* that state whose salary equals the row's max_salary, and of several such
\* rows the first in row order.
C13_HighestPaidJob ==
  (Called /\ result.fig.kind = "map") =>
    LET data == result.fig.data
    IN /\ \A st \in StatesOf(Survivors) :
            Cardinality({i \in 1..Len(data) : data[i].state = st}) = 1
       /\ \A a \in Rows(data) :
            LET grp == StateRows(Survivors, a.state)
            IN \E i \in 1..Len(grp) :
                 /\ IsFirstBestPaid(grp, i)
                 /\ Val(grp[i].median_salary) = a.max_salary
                 /\ Val(grp[i].job_title) = a.highest_paid_job

\* Two rows of one state that share the state's maximum under different
\* job titles: the aggregate names the title of the first.
C13_Witness ==
  /\ Called
  /\ result.fig.kind = "map"
  /\ \E a \in Rows(result.fig.data) :
       LET grp == StateRows(Survivors, a.state)
       IN \E i, j \in 1..Len(grp) :
            /\ i < j
            /\ Val(grp[i].median_salary) = a.max_salary
            /\ Val(grp[j].median_salary) = a.max_salary
            /\ Val(grp[i].job_title) # Val(grp[j].job_title)
            /\ a.highest_paid_job = Val(grp[i].job_title)

\* ------------------------------------------------- the fetching pages' claims

\* The requests the callbacks are waiting for.
PostsInFlight == {Val(p) : p \in {home_post, page1_post} \ {Null}}

\* C14: every request to the statistics API that a callback waits for was
\* issued with a bounded timeout and has waited no longer than it, so a
\* silent server cannot hold the callback for ever.
C14_BoundedTimeout ==
  \A post \in PostsInFlight :
    /\ post.timeout # Null
    /\ post.elapsed <= Val(post.timeout)

====
